---- MODULE Spec2Model ----
(***************************************************************************)
(* PageStack: a list of URLs is turned into one EPUB (pagestack/main.py),  *)
(* and an automation layer builds and mails the EPUB incrementally         *)
(* (pagestack/auto.py).                                                    *)
(*                                                                         *)
(* A page is modelled by the sequence of <img> elements of its extracted   *)
(* article fragment; an <img> by its effective source and its declared     *)
(* width and height (attribute strings, as BeautifulSoup returns them).    *)
(***************************************************************************)
EXTENDS Integers, Sequences, FiniteSets, TLC

VARIABLES
    pc,            \* position of the run
    urls,          \* build_epub: the urls argument
    idx,           \* build_epub: number of loop iterations completed
    chapters,      \* build_epub: chapters list
    image_cache,   \* build_epub: image_cache dict, absolute URL -> internal path
    items,         \* book.items restricted to images: internal paths, in add order
    raw_content,   \* build_epub: raw_content of the latest extraction
    log,           \* progress message of every iteration completed
    stats,         \* per absolute URL: references resolved (res) and rewritten (rew),
                   \* downloads that succeeded (dl), downloads after one succeeded (again)
    toc,           \* book.toc
    spine,         \* book.spine
    outFile,       \* what is at output_path: "none", "partial" or "complete"
    writes,        \* calls of epub.write_epub in this run
    result,        \* value returned by build_epub, -1 while it has not returned
    raised,        \* an exception left build_epub
    nimgs,         \* <img> elements parsed so far in this run
    soup,          \* clean_html: the parsed tree (its <img> elements)
    base_url,      \* clean_html: base_url
    tags,          \* clean_html: the elements of the tree other than <img>
    caller,        \* who called build_epub: "lib", "cli", "once" or "watch"
    urlsFile,      \* content of the urls file: the URLs read_urls returns
    stateFile,     \* lines of the sent-URL state file
    sent_urls,     \* build_and_send: sent_urls as loaded from the state file
    mails,         \* messages handed to the SMTP server
    ret,           \* build_and_send: <<>> for None, <<n>> for n
    exitStatus,    \* process exit status, -1 while running
    runs           \* build_and_send / main invocations started

vars == <<pc, urls, idx, chapters, image_cache, items, raw_content, log, stats,
          toc, spine, outFile, writes, result, raised, nimgs, soup, base_url, tags,
          caller, urlsFile, stateFile, sent_urls, mails, ret, exitStatus, runs>>

buildVars == <<urls, idx, chapters, image_cache, items, raw_content, log, stats,
               toc, spine, outFile, writes, result, raised, nimgs>>
callerVars == <<caller, urlsFile, stateFile, sent_urls, mails, ret, exitStatus, runs>>
cleanVars == <<soup, base_url, tags>>

(***************************************************************************)
(* Bounds                                                                  *)
(***************************************************************************)
MaxUrls == 2
MaxImgs == 2
MaxRuns == 2
MaxTags == 1

Urls == {1, 2}

RECURSIVE SeqsUpTo(_, _)
SeqsUpTo(S, n) ==
    IF n = 0 THEN {<<>>}
    ELSE LET shorter == SeqsUpTo(S, n - 1)
         IN shorter \cup {Append(s, x) : s \in {t \in shorter : Len(t) = n - 1}, x \in S}

(***************************************************************************)
(* URLs and images                                                         *)
(***************************************************************************)
\* Host of the page a URL leads to (final_url after redirects).
FinalUrl(url) == IF url = 1 THEN "http://h/p" ELSE "http://g/p"

AbsUrls == {"http://h/a.png", "http://g/a.png"}

\* urljoin(base_url, src) for a root-relative and for an absolute source.
Urljoin(base, src) ==
    IF src = "/a.png"
    THEN (IF base = "http://h/p" THEN "http://h/a.png" ELSE "http://g/a.png")
    ELSE src

\* int(s) of an attribute string: ok is FALSE where int raises ValueError.
ParseInt(s) ==
    CASE s = "1" -> [ok |-> TRUE, v |-> 1]
      [] s = "2" -> [ok |-> TRUE, v |-> 2]
      [] s = "3" -> [ok |-> TRUE, v |-> 3]
      [] s = "500" -> [ok |-> TRUE, v |-> 500]
      [] OTHER -> [ok |-> FALSE, v |-> 0]

\* The size test of process_images: int(w) <= 2 or int(h) <= 2, evaluated left
\* to right inside try / except (ValueError, TypeError): pass.
\* (the size test with the threshold one lower)
IsTrackingPixelBelow2(w, h) ==
    LET pw == ParseInt(w)
        ph == ParseInt(h)
    IN IF ~pw.ok THEN FALSE
       ELSE IF pw.v < 2 THEN TRUE
       ELSE IF ~ph.ok THEN FALSE
       ELSE ph.v < 2

IsTrackingPixel(w, h) ==
    LET pw == ParseInt(w)
        ph == ParseInt(h)
    IN IF ~pw.ok THEN FALSE
       ELSE IF pw.v <= 2 THEN TRUE
       ELSE IF ~ph.ok THEN FALSE
       ELSE ph.v <= 2

IsDataUri(src) == src = "data:image/png;base64,AA"

\* images/<md5(abs_url)[:10]><ext>
EpubPath(abs, ext) ==
    CASE abs = "http://h/a.png" /\ ext = ".png" -> "images/0h.png"
      [] abs = "http://h/a.png" /\ ext = ".jpg" -> "images/0h.jpg"
      [] abs = "http://g/a.png" /\ ext = ".png" -> "images/0g.png"
      [] OTHER -> "images/0g.jpg"

Exts == {".png", ".jpg"}
DlOutcomes == {"fail"} \cup Exts
PathsOfUrl(a) == {EpubPath(a, e) : e \in Exts}

\* (a cache that is never consulted)
InCacheNever(cache, abs) == FALSE

\* abs_url in image_cache
InCache(cache, abs) == abs \in DOMAIN cache

NoStats == [a \in AbsUrls |-> [res |-> 0, rew |-> 0, dl |-> 0, again |-> 0]]

Bump(st, abs, f) == [st EXCEPT ![abs] = [@ EXCEPT ![f] = @ + 1]]

\* alt.strip()
Strip(alt) == IF alt = " " THEN "" ELSE alt

\* img.parent and img.parent.name not in ("figure", "p", "a")
NeedsFigure(parent) == parent \notin {"figure", "p", "a"}

\* The end of an iteration of process_images: a bare <img> is wrapped in a
\* new <figure>, with a <figcaption> holding the stripped alt text when that
\* is not empty.
WrapInFigure(img) ==
    IF NeedsFigure(img.parent)
    THEN [img EXCEPT !.wrapped = TRUE, !.cap = Strip(img.alt)]
    ELSE img

\* One iteration of the for loop of process_images on element img; dl is what
\* fetch_binary gives if it is called: "fail" (None) or the extension of the
\* MIME type it reports.
ProcessImage(img, base, dl, st) ==
    IF img.src = "" THEN st
    ELSE IF IsTrackingPixel(img.w, img.h) THEN st
    ELSE IF IsDataUri(img.src) THEN [st EXCEPT !.soup = Append(@, img)]
    ELSE LET abs == Urljoin(base, img.src)
             seen == [st EXCEPT !.stats = Bump(@, abs, "res")]
         IN IF InCache(st.cache, abs)
            THEN [seen EXCEPT !.soup = Append(@, [img EXCEPT !.src = st.cache[abs]]),
                              !.stats = Bump(@, abs, "rew")]
            ELSE LET fetched == IF st.stats[abs].dl > 0
                                THEN [seen EXCEPT !.stats = Bump(@, abs, "again")]
                                ELSE seen
                 IN IF dl = "fail" THEN fetched
                    ELSE LET epub_path == EpubPath(abs, dl)
                         IN [soup |-> Append(st.soup,
                                             WrapInFigure([img EXCEPT !.src = epub_path])),
                             cache |-> (abs :> epub_path) @@ st.cache,
                             items |-> Append(st.items, epub_path),
                             stats |-> Bump(Bump(fetched.stats, abs, "rew"), abs, "dl")]

\* process_images over the first n elements of imgs (all of them unless an
\* exception ends the loop early); dls[i] is the download outcome at element i.
RECURSIVE ProcessImages(_, _, _, _, _)
ProcessImages(imgs, n, base, dls, st) ==
    IF n = 0 THEN st
    ELSE ProcessImage(imgs[n], base, dls[n], ProcessImages(imgs, n - 1, base, dls, st))

\* make_chapter_body: heading, byline, separator, content.
MakeChapterBody(title, url, content_html) ==
    [heading |-> title, source |-> url, rule |-> "hr", content |-> content_html]

\* f"{idx:03d}"
Pad3(n) == <<(n \div 100) % 10, (n \div 10) % 10, n % 10>>
ChapterNo(name) == 100 * name[1] + 10 * name[2] + name[3]

\* extract_article's title for a page.
TitleOf(url) == IF url = 1 THEN "Title h" ELSE "Title g"

(***************************************************************************)
(* Inputs                                                                  *)
(***************************************************************************)
Srcs == {"", "/a.png", "http://h/a.png"}
\* An <img> element: its source, its declared width and height, the name of
\* its parent, its alt text, and the <figure> and caption process_images has
\* put around it.
Img(src, w, h, parent, alt) ==
    [src |-> src, w |-> w, h |-> h, parent |-> parent, alt |-> alt,
     wrapped |-> FALSE, cap |-> ""]
PageImgs == {Img(src, "", "", "div", "") : src \in Srcs} \cup {Img("/a.png", "1", "1", "div", "")}
Pages == SeqsUpTo(PageImgs, MaxImgs)
PlainPages == {<<>>}

(***************************************************************************)
(* The sent-URL state file (auto.py)                                       *)
(***************************************************************************)
Range(s) == {s[i] : i \in DOMAIN s}

\* load_sent_urls: the set of the file's lines.
LoadSentUrls(file) == Range(file)

\* sorted(sent_urls), one per line.
RECURSIVE Sorted(_)
Sorted(S) ==
    IF S = {} THEN <<>>
    ELSE LET m == CHOOSE x \in S : \A y \in S : x <= y
         IN <<m>> \o Sorted(S \ {m})

SaveSentUrls(sent) == Sorted(sent)

\* new_urls = [url for url in urls if url not in sent_urls]
NewUrls(us, sent) == SelectSeq(us, LAMBDA u : u \notin sent)

(***************************************************************************)
(* build_epub                                                              *)
(***************************************************************************)
\* Entry of build_epub: a fresh book, chapters list and image cache.
EnterBuild(us) ==
    /\ pc' = "loop"
    /\ urls' = us
    /\ idx' = 0
    /\ chapters' = <<>>
    /\ image_cache' = <<>>
    /\ items' = <<>>
    /\ raw_content' = <<>>
    /\ log' = <<>>
    /\ stats' = NoStats
    /\ toc' = <<>>
    /\ spine' = <<>>
    /\ outFile' = "none"
    /\ writes' = 0
    /\ result' = -1
    /\ raised' = FALSE
    /\ nimgs' = 0

\* (numbering the chapters by their position among the chapters made)
ChapterIndexAmongSuccesses(i, chs) == Len(chs) + 1

\* The number in a chapter's file name: idx of enumerate(urls, start=1).
ChapterIndex(i, chs) == i

\* (a cleaning failure that keeps what was cleaned so far)
CleanOrFallbackPartial(fails, raw, cleaned) == cleaned

\* clean = clean_html(...), except: clean = raw_content
CleanOrFallback(fails, raw, cleaned) == IF fails THEN raw ELSE cleaned

\* (a chapters list that keeps the latest chapter only)
AddChapterLatestOnly(chs, chap) == <<chap>>

\* chapters.append(chap)
AddChapter(chs, chap) == Append(chs, chap)

\* The chapter made by an iteration of the loop.
NewChapter(n, url, clean) ==
    [file_name |-> Pad3(n),
     title |-> TitleOf(url),
     content |-> MakeChapterBody(TitleOf(url), FinalUrl(url), clean)]

\* clean_html as build_epub sees it: the images of raw are cleaned by
\* process_images; an exception after k elements leaves the side effects of
\* those k elements on the book and the cache and no return value.
CleanHtml(raw, k, base, dls) ==
    ProcessImages(raw, k, base, dls,
                  [soup |-> <<>>, cache |-> image_cache, items |-> items, stats |-> stats])

\* One iteration of the for loop of build_epub, on the page universe P.
ProcessUrl(P) ==
    /\ pc = "loop"
    /\ idx < Len(urls)
    /\ idx' = idx + 1
    /\ UNCHANGED <<pc, urls, toc, spine, outFile, writes, result, raised>>
    /\ UNCHANGED <<cleanVars, callerVars>>
    /\ \/ /\ log' = Append(log, "fetch failed")
          /\ UNCHANGED <<chapters, image_cache, items, raw_content, stats, nimgs>>
       \/ /\ log' = Append(log, "extraction failed")
          /\ UNCHANGED <<chapters, image_cache, items, raw_content, stats, nimgs>>
       \/ \E raw \in {p \in P : nimgs + Len(p) <= MaxImgs} :
          \E dls \in [1..Len(raw) -> DlOutcomes], k \in 0..Len(raw), fails \in BOOLEAN :
            /\ fails \/ k = Len(raw)
            /\ LET url == urls[idx + 1]
                   st == CleanHtml(raw, k, FinalUrl(url), dls)
                   clean == CleanOrFallback(fails, raw, st.soup)
               IN /\ raw_content' = raw
                  /\ nimgs' = nimgs + Len(raw)
                  /\ image_cache' = st.cache
                  /\ items' = st.items
                  /\ stats' = st.stats
                  /\ chapters' = AddChapter(chapters,
                                             NewChapter(ChapterIndex(idx + 1, chapters), url, clean))
                  /\ log' = Append(log, IF fails THEN "cleaning failed" ELSE "OK")

\* KeyboardInterrupt between two iterations: it is no Exception, nothing in
\* build_epub catches it.
Abort ==
    /\ pc = "loop"
    /\ pc' = "aborted"
    /\ raised' = TRUE
    /\ UNCHANGED <<urls, idx, chapters, image_cache, items, raw_content, log, stats,
                   toc, spine, outFile, writes, result, nimgs>>
    /\ UNCHANGED <<cleanVars, callerVars>>

TocOf(chs) == [i \in 1..Len(chs) |->
                 [href |-> chs[i].file_name, title |-> chs[i].title, uid |-> chs[i].file_name]]

NavEntry == [kind |-> "nav", name |-> <<>>]

\* (a spine with the navigation page after the chapters)
SpineNavLast(chs) == [i \in 1..Len(chs) |-> [kind |-> "chapter", name |-> chs[i].file_name]] \o <<NavEntry>>

\* (a build that writes the book whatever the chapters list holds)
NoChaptersIgnored(chs) == FALSE

\* not chapters
NoChapters(chs) == chs = <<>>

\* book.spine = ["nav"] + chapters
SpineOf(chs) == <<NavEntry>> \o [i \in 1..Len(chs) |-> [kind |-> "chapter", name |-> chs[i].file_name]]

\* After the loop: return 0 without chapters, else toc, spine, write_epub.
\* write_epub either writes the file or raises (an unwritable path, a chapter
\* the library cannot serialise), leaving nothing or a truncated archive.
FinishBuild ==
    /\ pc = "loop"
    /\ idx = Len(urls)
    /\ pc' = "returned"
    /\ UNCHANGED <<urls, idx, chapters, image_cache, items, raw_content, log, stats, nimgs>>
    /\ UNCHANGED <<cleanVars, callerVars>>
    /\ IF NoChapters(chapters)
       THEN /\ result' = 0
            /\ UNCHANGED <<toc, spine, outFile, writes, raised>>
       ELSE /\ toc' = TocOf(chapters)
            /\ spine' = SpineOf(chapters)
            /\ writes' = writes + 1
            /\ \/ /\ outFile' = "complete"
                  /\ result' = Len(chapters)
                  /\ UNCHANGED raised
               \/ /\ outFile' \in {"none", "partial"}
                  /\ raised' = TRUE
                  /\ UNCHANGED result

(***************************************************************************)
(* Specification of one build_epub call on any list of URLs                *)
(***************************************************************************)
Init ==
    /\ pc = "loop"
    /\ urls \in SeqsUpTo(Urls, MaxUrls)
    /\ idx = 0
    /\ chapters = <<>>
    /\ image_cache = <<>>
    /\ items = <<>>
    /\ raw_content = <<>>
    /\ log = <<>>
    /\ stats = NoStats
    /\ toc = <<>>
    /\ spine = <<>>
    /\ outFile = "none"
    /\ writes = 0
    /\ result = -1
    /\ raised = FALSE
    /\ nimgs = 0
    /\ soup = <<>>
    /\ base_url = ""
    /\ tags = <<>>
    /\ caller = "lib"
    /\ urlsFile = <<>>
    /\ stateFile = <<>>
    /\ sent_urls = {}
    /\ mails = 0
    /\ ret = <<>>
    /\ exitStatus = -1
    /\ runs = 0

Next ==
    \/ ProcessUrl(Pages)
    \/ Abort
    \/ FinishBuild

Spec == Init /\ [][Next]_vars

(***************************************************************************)
(* The callers: pagestack (main.py main) and the automation (auto.py)      *)
(***************************************************************************)
\* main.py main, up to the call of build_epub.
CliStart ==
    /\ pc = "idle"
    /\ caller = "cli"
    /\ runs < MaxRuns
    /\ runs' = runs + 1
    /\ UNCHANGED <<caller, urlsFile, stateFile, sent_urls, mails, ret>>
    /\ UNCHANGED cleanVars
    /\ IF urlsFile = <<>>
       THEN /\ pc' = "exit"
            /\ exitStatus' = 1
            /\ UNCHANGED buildVars
       ELSE /\ EnterBuild(urlsFile)
            /\ exitStatus' = -1

\* main.py main, after build_epub: 0 on chapters, sys.exit(1) on none; an
\* exception out of build_epub ends the process with a traceback.
CliFinish ==
    /\ pc \in {"returned", "aborted"}
    /\ caller = "cli"
    /\ pc' = "exit"
    /\ exitStatus' = IF pc = "aborted" THEN 130
                     ELSE IF raised THEN 1
                     ELSE IF result # 0 THEN 0 ELSE 1
    /\ UNCHANGED <<caller, urlsFile, stateFile, sent_urls, mails, ret, runs>>
    /\ UNCHANGED <<buildVars, cleanVars>>

\* (a --run-once that exits 0 whatever the count)
AfterSendLenient(count, exc) ==
    IF caller = "once"
    THEN /\ pc' = "exit"
         /\ exitStatus' = IF exc THEN 1 ELSE 0
    ELSE /\ pc' = "watching"
         /\ UNCHANGED exitStatus

\* Where the automation is after a build_and_send call that returned or raised
\* an Exception: --run-once exits (1 when the count is 0), the watch loop
\* catches the exception and polls again.
AfterSend(count, exc) ==
    IF caller = "once"
    THEN /\ pc' = "exit"
         /\ exitStatus' = IF exc \/ count = <<0>> THEN 1 ELSE 0
    ELSE /\ pc' = "watching"
         /\ UNCHANGED exitStatus

\* build_and_send, up to the call of build_epub.
AutoStart ==
    /\ pc = "idle"
    /\ caller \in {"once", "watch"}
    /\ runs < MaxRuns
    /\ runs' = runs + 1
    /\ UNCHANGED <<caller, urlsFile, stateFile, mails>>
    /\ UNCHANGED cleanVars
    /\ IF urlsFile = <<>>
       THEN /\ ret' = <<>>
            /\ AfterSend(<<>>, FALSE)
            /\ UNCHANGED <<buildVars, sent_urls>>
       ELSE /\ sent_urls' = LoadSentUrls(stateFile)
            /\ LET new_urls == NewUrls(urlsFile, LoadSentUrls(stateFile))
               IN IF new_urls = <<>>
                  THEN /\ ret' = <<>>
                       /\ AfterSend(<<>>, FALSE)
                       /\ UNCHANGED buildVars
                  ELSE /\ EnterBuild(new_urls)
                       /\ UNCHANGED <<ret, exitStatus>>

\* (a state update on any delivery)
StateAdvancesOnAnyBuild(built, requested) == built > 0

\* built == len(new_urls)
StateAdvances(built, requested) == built = requested

\* build_and_send after build_epub, and what its caller makes of it.
AutoFinish ==
    /\ pc \in {"returned", "aborted"}
    /\ caller \in {"once", "watch"}
    /\ UNCHANGED <<caller, urlsFile, sent_urls, runs>>
    /\ UNCHANGED <<buildVars, cleanVars>>
    /\ IF pc = "aborted"
       THEN /\ pc' = "exit"
            /\ exitStatus' = IF caller = "once" THEN 130 ELSE 0
            /\ UNCHANGED <<stateFile, mails, ret>>
       ELSE IF raised
       THEN /\ AfterSend(<<>>, TRUE)
            /\ UNCHANGED <<stateFile, mails, ret>>
       ELSE IF result = 0
       THEN /\ ret' = <<0>>
            /\ AfterSend(<<0>>, FALSE)
            /\ UNCHANGED <<stateFile, mails>>
       ELSE \/ /\ AfterSend(<<>>, TRUE)
               /\ UNCHANGED <<stateFile, mails, ret>>
            \/ /\ mails' = mails + 1
               /\ stateFile' = IF StateAdvances(result, Len(urls))
                               THEN SaveSentUrls(sent_urls \cup Range(urls))
                               ELSE stateFile
               /\ ret' = <<result>>
               /\ AfterSend(<<result>>, FALSE)

\* The command is run again (a scheduler running --run-once, a user).
Reinvoke ==
    /\ pc = "exit"
    /\ caller \in {"cli", "once"}
    /\ runs < MaxRuns
    /\ pc' = "idle"
    /\ exitStatus' = -1
    /\ UNCHANGED <<caller, urlsFile, stateFile, sent_urls, mails, ret, runs>>
    /\ UNCHANGED <<buildVars, cleanVars>>

\* The watch loop finds the hash of the urls file changed; the URLs it lists
\* may be the same as before (a comment or a blank line was edited).
FileChange ==
    /\ pc = "watching"
    /\ runs < MaxRuns
    /\ \E f \in SeqsUpTo(Urls, MaxUrls) : urlsFile' = f
    /\ pc' = "idle"
    /\ UNCHANGED <<caller, stateFile, sent_urls, mails, ret, exitStatus, runs>>
    /\ UNCHANGED <<buildVars, cleanVars>>

InitCallers ==
    /\ caller \in {"lib", "cli", "once", "watch"}
    /\ pc = CASE caller = "lib" -> "loop"
              [] caller = "watch" -> "watching"
              [] OTHER -> "idle"
    /\ urlsFile \in IF caller = "lib" THEN {<<>>} ELSE SeqsUpTo(Urls, MaxUrls)
    /\ stateFile \in IF caller \in {"lib", "cli"} THEN {<<>>} ELSE {Sorted(S) : S \in SUBSET Urls}
    /\ urls \in IF caller = "lib" THEN SeqsUpTo(Urls, MaxUrls) ELSE {<<>>}
    /\ idx = 0
    /\ chapters = <<>>
    /\ image_cache = <<>>
    /\ items = <<>>
    /\ raw_content = <<>>
    /\ log = <<>>
    /\ stats = NoStats
    /\ toc = <<>>
    /\ spine = <<>>
    /\ outFile = "none"
    /\ writes = 0
    /\ result = -1
    /\ raised = FALSE
    /\ nimgs = 0
    /\ soup = <<>>
    /\ base_url = ""
    /\ tags = <<>>
    /\ sent_urls = {}
    /\ mails = 0
    /\ ret = <<>>
    /\ exitStatus = -1
    /\ runs = 0

NextCallers ==
    \/ CliStart
    \/ CliFinish
    \/ AutoStart
    \/ AutoFinish
    \/ Reinvoke
    \/ FileChange
    \/ ProcessUrl(PlainPages)
    \/ Abort
    \/ FinishBuild

SpecCallers == InitCallers /\ [][NextCallers]_vars

(***************************************************************************)
(* Specification of one process_images call, on any tree and any cache a   *)
(* run can have built                                                      *)
(***************************************************************************)
Dims == {"", "2", "3"}
ImgSrcs == {"", "data:image/png;base64,AA", "/a.png"}
\* fetch_binary here fails or returns a PNG.
ImgDlOutcomes == {"fail", ".png"}
Imgs == {Img(src, d[1], d[2], "div", "") : src \in ImgSrcs, d \in Dims \X Dims}
Bases == {FinalUrl(u) : u \in Urls}

\* The caches a run can hold: each cached URL maps to a path made from it.
Caches == UNION {{c \in [S -> UNION {PathsOfUrl(a) : a \in S}] :
                     \A a \in S : c[a] \in PathsOfUrl(a)} : S \in SUBSET AbsUrls}

\* The image items and the counts of a run that has built cache c.
ItemsOfCache(c) ==
    LET pick(a) == IF a \in DOMAIN c THEN <<c[a]>> ELSE <<>>
    IN pick("http://h/a.png") \o pick("http://g/a.png")
StatsOfCache(c) ==
    [a \in AbsUrls |-> IF a \in DOMAIN c
                       THEN [res |-> 1, rew |-> 1, dl |-> 1, again |-> 0]
                       ELSE [res |-> 0, rew |-> 0, dl |-> 0, again |-> 0]]

\* A process_images call on a tree whose <img> elements are drawn from S.
InitOver(S) ==
    /\ pc = "images"
    /\ soup \in SeqsUpTo(S, MaxImgs)
    /\ raw_content = soup
    /\ base_url \in Bases
    /\ tags = <<>>
    /\ image_cache \in Caches
    /\ items = ItemsOfCache(image_cache)
    /\ stats = StatsOfCache(image_cache)
    /\ nimgs = Len(soup)
    /\ urls = <<>>
    /\ idx = 0
    /\ chapters = <<>>
    /\ log = <<>>
    /\ toc = <<>>
    /\ spine = <<>>
    /\ outFile = "none"
    /\ writes = 0
    /\ result = -1
    /\ raised = FALSE
    /\ caller = "lib"
    /\ urlsFile = <<>>
    /\ stateFile = <<>>
    /\ sent_urls = {}
    /\ mails = 0
    /\ ret = <<>>
    /\ exitStatus = -1
    /\ runs = 0

InitImg == InitOver(Imgs)

\* process_images(soup, base_url, book, session, image_cache)
ProcessImagesStep ==
    /\ pc = "images"
    /\ pc' = "images done"
    /\ \E dls \in [1..Len(soup) -> ImgDlOutcomes] :
         LET st == ProcessImages(soup, Len(soup), base_url, dls,
                                 [soup |-> <<>>, cache |-> image_cache,
                                  items |-> items, stats |-> stats])
         IN /\ soup' = st.soup
            /\ image_cache' = st.cache
            /\ items' = st.items
            /\ stats' = st.stats
    /\ UNCHANGED <<urls, idx, chapters, raw_content, log, toc, spine, outFile, writes,
                   result, raised, nimgs, base_url, tags>>
    /\ UNCHANGED callerVars

NextImg == ProcessImagesStep

SpecImg == InitImg /\ [][NextImg]_vars

\* The same call on images of every kind of parent and alt text.
Parents == {"div", "p", "figure"}
Alts == {"", " ", "x"}
WrapImgs == {Img(src, "", "", par, alt) :
                src \in {"data:image/png;base64,AA", "/a.png"},
                par \in Parents, alt \in Alts}
InitWrap == InitOver(WrapImgs)
SpecWrap == InitWrap /\ [][NextImg]_vars

\* The same call on images that declare one, both or none of a small and a
\* large dimension.
SizeDims == {"", "1", "500"}
SizeImgs == {Img(src, d[1], d[2], "div", "") :
                src \in {"data:image/png;base64,AA", "/a.png"},
                d \in SizeDims \X SizeDims}
InitSize == InitOver(SizeImgs)
SpecSize == InitSize /\ [][NextImg]_vars

(***************************************************************************)
(* Specification of the attribute pass of one clean_html call, on the      *)
(* elements of the tree other than <img>                                   *)
(***************************************************************************)
\* _UNWANTED_TAGS (those that occur in the trees below)
UnwantedTags == {"script"}

\* _UNWANTED_ATTRS
UnwantedAttrs == {"onclick", "onload", "onerror", "class", "id", "style",
                  "data-src-retina", "data-original", "loading", "decoding",
                  "fetchpriority", "sizes", "crossorigin", "referrerpolicy"}

\* keep of _sanitise_attrs
KeepAttrs == {"src", "href", "alt", "title", "colspan", "rowspan", "width", "height"}

TagNames == {"p", "a", "script"}
AttrNames == {"href", "title", "class", "onclick", "data-foo", "onmouseover"}
\* An element: its name, the names of its attributes, whether it has text.
Elems == [name : TagNames, attrs : SUBSET AttrNames, text : BOOLEAN]

\* for attr in list(tag.attrs.keys()): if attr in _UNWANTED_ATTRS: del
StripUnwanted(attrs) == attrs \ UnwantedAttrs

\* The passes of clean_html over the elements other than <img>: unwanted
\* tags are decomposed, unwanted attributes deleted, empty p / div / span
\* removed.
CleanTags(ts) ==
    LET kept == SelectSeq(ts, LAMBDA t : t.name \notin UnwantedTags)
        stripped == [i \in DOMAIN kept |->
                        [kept[i] EXCEPT !.attrs = StripUnwanted(@)]]
    IN SelectSeq(stripped,
                 LAMBDA t : ~(t.name \in {"p", "div", "span"} /\ ~t.text))

InitAttrs ==
    /\ pc = "attrs"
    /\ tags \in SeqsUpTo(Elems, MaxTags)
    /\ soup = <<>>
    /\ base_url \in Bases
    /\ raw_content = <<>>
    /\ image_cache = <<>>
    /\ items = <<>>
    /\ stats = NoStats
    /\ nimgs = 0
    /\ urls = <<>>
    /\ idx = 0
    /\ chapters = <<>>
    /\ log = <<>>
    /\ toc = <<>>
    /\ spine = <<>>
    /\ outFile = "none"
    /\ writes = 0
    /\ result = -1
    /\ raised = FALSE
    /\ caller = "lib"
    /\ urlsFile = <<>>
    /\ stateFile = <<>>
    /\ sent_urls = {}
    /\ mails = 0
    /\ ret = <<>>
    /\ exitStatus = -1
    /\ runs = 0

\* clean_html from the attribute pass to its return
CleanTagsStep ==
    /\ pc = "attrs"
    /\ pc' = "attrs done"
    /\ tags' = CleanTags(tags)
    /\ UNCHANGED <<buildVars, callerVars, soup, base_url>>

NextAttrs == CleanTagsStep

SpecAttrs == InitAttrs /\ [][NextAttrs]_vars

(***************************************************************************)
(* Properties of build_epub (checked under Spec)                           *)
(***************************************************************************)
MadeChapter(msg) == msg \in {"OK", "cleaning failed"}

\* Positions, in the input list, of the URLs whose fetch and extraction succeeded.
Made(l) == {i \in DOMAIN l : MadeChapter(l[i])}
SuccPos(l) == SelectSeq([i \in 1..Len(l) |-> i], LAMBDA i : MadeChapter(l[i]))

PathsOf(a) == PathsOfUrl(a)
ItemsForIn(its, a) == Cardinality({i \in DOMAIN its : its[i] \in PathsOf(a)})
ItemsFor(a) == ItemsForIn(items, a)

\* C1: the number of chapters, and the count build_epub returns, is at most the
\* number of input URLs and is exactly the number of URLs whose fetch and
\* extraction both succeeded, whatever clean_html and the image downloads did.
C1_ChapterCount ==
    /\ Len(log) = idx
    /\ Len(chapters) = Cardinality(Made(log))
    /\ Len(chapters) <= Len(urls)
    /\ (pc = "returned" /\ ~raised) =>
          /\ idx = Len(urls)
          /\ result = Cardinality(Made(log))
    /\ writes > 0 => Len(toc) = Cardinality(Made(log))

\* C1 witness: a run of two URLs returned 1 although a cleaning failed and an
\* image download failed.
C1_Witness ==
    /\ pc = "returned"
    /\ Len(urls) = 2
    /\ result = 1
    /\ \E i \in DOMAIN log : log[i] = "cleaning failed"
    /\ \E a \in AbsUrls : stats[a].res > stats[a].rew

C3_SpineAndToc ==
    writes > 0 =>
       /\ Len(spine) = Len(chapters) + 1
       /\ spine[1].kind = "nav"
       /\ \A i \in DOMAIN chapters :
             /\ spine[i + 1].kind = "chapter"
             /\ spine[i + 1].name = chapters[i].file_name
       /\ Len(toc) = Len(chapters)
       /\ \A i \in DOMAIN chapters :
             /\ toc[i].href = chapters[i].file_name
             /\ toc[i].title = chapters[i].title
             /\ chapters[i].content.source = FinalUrl(urls[SuccPos(log)[i]])

\* C3 witness: a book of two chapters with different titles was serialised.
C3_Witness ==
    /\ writes > 0
    /\ Len(chapters) = 2
    /\ toc[1].title # toc[2].title

\* C4 as claimed: once a run has returned, an absolute URL that two image
\* references resolved to has exactly one resource, was not downloaded again
\* after a successful download, and both references were rewritten.
C4_Original ==
    pc = "returned" =>
       \A a \in AbsUrls :
          stats[a].res >= 2 =>
             /\ ItemsFor(a) = 1
             /\ stats[a].again = 0
             /\ stats[a].rew = stats[a].res

\* C4 as amended: per absolute URL at most one resource is registered, exactly
\* one once a download of it has succeeded; it is never downloaded again after a
\* successful download; every reference that is rewritten gets the one path the
\* cache holds for it (a reference whose download fails is dropped instead).
C4_Dedup ==
    /\ \A a \in AbsUrls :
          /\ stats[a].dl <= 1
          /\ ItemsFor(a) = stats[a].dl
          /\ stats[a].again = 0
          /\ stats[a].rew <= stats[a].res
          /\ (a \in DOMAIN image_cache) = (stats[a].dl = 1)
          /\ stats[a].rew > 0 => a \in DOMAIN image_cache
          /\ a \in DOMAIN image_cache => image_cache[a] \in PathsOf(a)
    /\ Range(items) = {image_cache[a] : a \in DOMAIN image_cache}
    /\ \A i \in DOMAIN chapters :
          log[SuccPos(log)[i]] = "OK" =>
             \A j \in DOMAIN chapters[i].content.content :
                chapters[i].content.content[j].src \in Range(items)

\* C4 witness: two chapters each hold a rewritten reference to one absolute URL.
C4_Witness ==
    /\ Len(chapters) = 2
    /\ \E a \in AbsUrls :
          /\ stats[a].res = 2
          /\ stats[a].rew = 2
          /\ \A i \in {1, 2} :
                /\ Len(chapters[i].content.content) = 1
                /\ chapters[i].content.content[1].src = image_cache[a]

\* C8 as claimed: a run that ends has processed every URL and ends by returning
\* a count, whatever failed, serialisation included.
C8_NeverRaises ==
    pc = "returned" =>
       /\ idx = Len(urls)
       /\ ~raised
       /\ result >= 0

\* C9: write_epub is called at most once per run, only after the last URL and
\* only with a chapter; a run aborted between URLs or ending without chapters
\* leaves nothing at the output path.
C9_WriteLast ==
    /\ writes <= 1
    /\ writes > 0 => (pc = "returned" /\ idx = Len(urls) /\ Len(chapters) >= 1)
    /\ outFile # "none" => writes = 1
    /\ (pc = "aborted" \/ (pc = "returned" /\ chapters = <<>>)) =>
          (outFile = "none" /\ writes = 0)

\* C9 witness: a run was aborted after it had made a chapter; no file exists.
C9_Witness ==
    /\ pc = "aborted"
    /\ Len(chapters) >= 1
    /\ idx < Len(urls)
    /\ outFile = "none"

\* C10: when clean_html raises for a URL, the chapter of that URL is made and
\* its content is heading, byline, separator and the raw extracted fragment.
C10_RawFallback ==
    (idx > 0 /\ log[idx] = "cleaning failed") =>
       /\ chapters # <<>>
       /\ chapters[Len(chapters)].content =
             [heading |-> TitleOf(urls[idx]), source |-> FinalUrl(urls[idx]),
              rule |-> "hr", content |-> raw_content]

\* C10 witness: cleaning failed after an image of the page had been embedded.
C10_Witness ==
    /\ idx > 0
    /\ log[idx] = "cleaning failed"
    /\ raw_content # <<>>
    /\ items # <<>>
    /\ idx = 1

(***************************************************************************)
(* Properties of process_images (checked under SpecImg)                    *)
(***************************************************************************)
\* Width and height are both declared as integers and both are at most 2.
BothTiny(img) ==
    /\ img.w \in {"1", "2"}
    /\ img.h \in {"1", "2"}

\* C5: process_images removes every image whose declared width and height are
\* both at most 2, and such an image causes no download, no resource and no
\* cache entry: an absolute URL that only such images refer to keeps its cache
\* entry, its resources and its counts as they were.
C5_TrackingPixels ==
    [][(pc = "images" /\ pc' = "images done") =>
         /\ \A j \in DOMAIN soup' : ~BothTiny(soup'[j])
         /\ Len(soup') <= Cardinality({i \in DOMAIN soup : ~BothTiny(soup[i])})
         /\ \A a \in AbsUrls :
               (\A i \in DOMAIN soup :
                   Urljoin(base_url, soup[i].src) = a => BothTiny(soup[i])) =>
                  /\ (a \in DOMAIN image_cache') = (a \in DOMAIN image_cache)
                  /\ a \in DOMAIN image_cache => image_cache'[a] = image_cache[a]
                  /\ ItemsForIn(items', a) = ItemsForIn(items, a)
                  /\ stats'[a] = stats[a]
      ]_vars

\* C5 witness: a tree of two tracking pixels, one with a source the cache
\* already held and one with a data URI, has been processed: the tree is empty.
C5_Witness ==
    /\ pc = "images done"
    /\ Len(raw_content) = 2
    /\ \A i \in DOMAIN raw_content : BothTiny(raw_content[i]) /\ raw_content[i].src # ""
    /\ \E i \in DOMAIN raw_content :
          Urljoin(base_url, raw_content[i].src) \in DOMAIN image_cache
    /\ \E i \in DOMAIN raw_content : IsDataUri(raw_content[i].src)
    /\ soup = <<>>

(***************************************************************************)
(* Properties of the callers (checked under SpecCallers)                   *)
(***************************************************************************)
\* C6: build_epub returns 0, without raising, when it made no chapter (an empty
\* list, or every URL failing); on that result pagestack exits non-zero, and
\* build_and_send returns 0 with no mail sent and the state file untouched,
\* which --run-once turns into exit status 1.
C6_ZeroIsFailure ==
    [][/\ (pc = "loop" /\ pc' = "returned" /\ chapters = <<>>) =>
             (result' = 0 /\ ~raised' /\ outFile' = "none")
       /\ (pc = "returned" /\ pc' # pc /\ result = 0) =>
             /\ caller = "cli" => (pc' = "exit" /\ exitStatus' # 0)
             /\ caller \in {"once", "watch"} =>
                   /\ ret' = <<0>>
                   /\ mails' = mails
                   /\ stateFile' = stateFile
             /\ caller = "once" => (pc' = "exit" /\ exitStatus' = 1)
      ]_vars

\* C6 witness: --run-once ended with status 1 after both new URLs failed.
C6_Witness ==
    /\ caller = "once"
    /\ pc = "exit"
    /\ Len(urls) = 2
    /\ idx = 2
    /\ result = 0
    /\ ret = <<0>>
    /\ exitStatus = 1

\* C7: the state file changes only at the end of a build_and_send whose build
\* made as many chapters as new URLs were requested and whose mail was sent,
\* and then it holds the old set united with the new URLs; every other step
\* leaves it as it was.
C7_StateAdvance ==
    [][/\ stateFile' # stateFile =>
             /\ pc = "returned"
             /\ ~raised
             /\ result = Len(urls)
             /\ mails' = mails + 1
       /\ (pc = "returned" /\ ~raised /\ result = Len(urls) /\ mails' = mails + 1) =>
             /\ LoadSentUrls(stateFile') = LoadSentUrls(stateFile) \cup Range(urls)
             /\ \A i, j \in DOMAIN stateFile' : i < j => stateFile'[i] < stateFile'[j]
      ]_vars

\* C7 witness: a run that found a sent URL in the state file exported the one
\* new URL, mailed it and added it to the state file.
C7_Witness ==
    /\ pc \in {"exit", "watching"}
    /\ mails >= 1
    /\ Len(urls) >= 1
    /\ result = Len(urls)
    /\ ret = <<result>>
    /\ sent_urls # {}
    /\ sent_urls \cap Range(urls) = {}
    /\ LoadSentUrls(stateFile) = sent_urls \cup Range(urls)

\* The latest build of this process failed on at least one of its URLs.
SomeFailed == Cardinality(Made(log)) < Len(log)

\* C14: across repeated build_and_send runs, a run in which a new URL fails
\* while another succeeds still sends the package but leaves the sent-URL
\* state as it was, so the next run selects the same new URLs again, those
\* already exported included (over an unchanged list, the same list of new
\* URLs); the state does not advance for as long as a URL of the latest build
\* has failed.
C14_ReExport ==
    [][(caller \in {"once", "watch"}) =>
          ((SomeFailed => stateFile' = stateFile)
           /\ ((pc = "returned" /\ pc' # pc /\ ~raised
                  /\ 0 < result /\ result < Len(urls)) =>
                     ((mails' = mails + 1 /\ ret' = <<result>>)
                      \/ (mails' = mails /\ ret' = ret)))
           /\ ((pc = "idle" /\ pc' # pc /\ SomeFailed) =>
                  ((\A u \in Range(urls) \cap Range(urlsFile) :
                        pc' = "loop" /\ u \in Range(urls'))
                   /\ (caller = "once" => urls' = urls))))
      ]_vars

\* C14 witness: the second run of --run-once over the same list exported one of
\* the same two new URLs again and mailed it again; the state file still holds
\* neither.
C14_Witness ==
    /\ caller = "once"
    /\ pc = "exit"
    /\ runs = 2
    /\ mails = 2
    /\ Len(urls) = 2
    /\ result = 1
    /\ ret = <<1>>
    /\ Range(urls) \cap LoadSentUrls(stateFile) = {}

(***************************************************************************)
(* Properties of the attribute pass of clean_html (checked under SpecAttrs)*)
(***************************************************************************)
\* C11: after clean_html, every element other than an image carries only
\* attributes of the allow-list (src, href, alt, title, colspan, rowspan,
\* width, height); any other attribute, such as a data-* or an event-handler
\* attribute, has been stripped.
C11_AllowListOnly ==
    pc = "attrs done" =>
        \A i \in DOMAIN tags : tags[i].attrs \subseteq KeepAttrs

(***************************************************************************)
(* Properties of the figure wrapping (checked under SpecWrap)              *)
(***************************************************************************)
IsInternalPath(src) == src \in UNION {PathsOfUrl(a) : a \in AbsUrls}

\* C12: every image process_images embeds (src rewritten to an internal path),
\* by a fresh download or by reuse of a cached path, is inside a figure when
\* its parent was not a figure, p or a, with a caption when its alt text is
\* not empty.
C12_FigureWrap ==
    pc = "images done" =>
        \A j \in DOMAIN soup :
            (IsInternalPath(soup[j].src) /\ NeedsFigure(soup[j].parent)) =>
                /\ soup[j].wrapped
                /\ Strip(soup[j].alt) # "" => soup[j].cap = Strip(soup[j].alt)

(***************************************************************************)
(* Properties of the size rule (checked under SpecSize)                    *)
(***************************************************************************)
\* C13: the size rule drops an image with a non-empty source only when its
\* declared width and height are both <= 2; an image with one dimension <= 2
\* and the other > 2 (width 1, height 500) is not dropped by it and goes on
\* to the data-URI pass-through or to resolution and embedding: a data URI
\* stays in the tree as it is, an image whose URL is cached stays with the
\* cached path.
C13_OnlyBothTiny ==
    [][(pc = "images" /\ pc' = "images done") =>
          \A i \in DOMAIN soup :
              ~BothTiny(soup[i]) =>
                  /\ IsDataUri(soup[i].src) =>
                        \E j \in DOMAIN soup' : soup'[j] = soup[i]
                  /\ (soup[i].src = "/a.png"
                        /\ InCache(image_cache, Urljoin(base_url, soup[i].src))) =>
                        \E j \in DOMAIN soup' :
                            soup'[j] = [soup[i] EXCEPT
                                !.src = image_cache[Urljoin(base_url, soup[i].src)]]
      ]_vars

====
